---- MODULE Spec2Model ----
(***************************************************************************)
(* The ingestion pipeline of llamacpp-qdrant-rust-example: main            *)
(* (src/src/main.rs) loads documents, waits for the llama.cpp server,      *)
(* spawns the Qdrant consumer thread, embeds each document in turn and     *)
(* sends the outcome over an unbounded channel; the consumer thread        *)
(* (vector_upsert_loop) drains the channel into the Qlient batch buffer    *)
(* (src/src/clients/vector_store/qdrant.rs) and counts what it sees.       *)
(***************************************************************************)
EXTENDS Integers, Sequences, FiniteSets, TLC

\* ---------------------------------------------------------------- bounds
MaxLines == 3
MaxSize == 2
MaxProbes == 2

\* ------------------------------------------------------ program constants
InitialBackoff == 7000
Increment == 500

VARIABLES
    pcMain,         \* position of the main task
    pcCons,         \* position of the consumer thread
    lines,          \* the lines of the input file not read yet
    documents,      \* VecDeque<Document> still to embed (front first)
    total_expected, \* documents.len() handed to vector_upsert_loop
    dur,            \* await_llama: current backoff in ms
    sleeps,         \* await_llama: the durations slept so far, in order
    probes,         \* number of health_check calls made
    lastStatus,     \* what the last health_check returned
    healthBody,     \* health_check: what curl.perform got, until it is decoded
    awaitResult,    \* what await_llama returned: "none", "Ok" or "Err"
    inflight,       \* the document whose embed call is awaiting its response
    embedCalls,     \* embed calls issued so far: [doc, response]
    chan,           \* the mpsc channel: outcomes sent and not yet received
    txOpen,         \* the sender has not been dropped
    sent,           \* every outcome handed to tx.send, in order
    received,       \* every outcome rx.recv returned, in order
    size,           \* Qlient.size
    buffer,         \* Qlient.buffer (front first)
    pushed,         \* the documents handed to Qlient::push, in order
    upserts,        \* upsert_points calls: [points, response]
    storeCalls,     \* every call made on the Qdrant client, in order
    hasCollection,  \* what has_collection answered: "none" before the call
    processed,      \* progress bar "{pos} processed"
    errors,         \* progress bar "{pos} failures"
    embeddings,     \* progress bar "{pos} embeddings generated"
    stored          \* progress bar "{pos} embeddings stored"

vars == <<pcMain, pcCons, lines, documents, total_expected, dur, sleeps, probes,
          lastStatus, healthBody, awaitResult, inflight, embedCalls, chan, txOpen, sent,
          received, size, buffer, pushed, upserts, storeCalls, hasCollection,
          processed, errors, embeddings, stored>>

mainVars == <<pcMain, lines, documents, total_expected, dur, sleeps, probes,
              lastStatus, healthBody, awaitResult, inflight, embedCalls, txOpen, sent>>
consVars == <<pcCons, received, size, buffer, pushed, upserts, storeCalls,
              hasCollection, processed, errors, embeddings, stored>>

\* ------------------------------------------------------------- data model
LineKinds == {"wellformed", "malformed", "invalid_utf8"}

Document(i, e) == [tag |-> "Ok", id |-> i, embeddings |-> e]
ErrResult == [tag |-> "Err", id |-> 0, embeddings |-> <<>>]

NoDocument == [tag |-> "none", id |-> 0, embeddings |-> <<>>]

RECURSIVE SeqsUpTo(_, _)
SeqsUpTo(S, n) ==
    IF n = 0 THEN {<<>>}
    ELSE LET shorter == SeqsUpTo(S, n - 1)
         IN  shorter \cup {Append(s, x) : s \in {t \in shorter : Len(t) = n - 1}, x \in S}

Count(s, P(_)) == Cardinality({i \in 1..Len(s) : P(s[i])})

\* ------------------------------------------------------------ read_documents
\* Lines are read until next_line fails or the file ends; each line that
\* parses as a Document is pushed to the FRONT of the deque.
RECURSIVE read_documents(_, _, _)
read_documents(ls, i, vec) ==
    IF i > Len(ls) \/ ls[i] = "invalid_utf8" THEN vec
    ELSE read_documents(ls, i + 1,
            IF ls[i] = "wellformed" THEN <<Document(i, <<>>)>> \o vec ELSE vec)

\* -------------------------------------------------------------- health_check
\* What the /health endpoint can answer: no answer at all (curl fails), a body
\* of more than 32 bytes (never copied into the buffer), a body that is not a
\* JSON object, or a JSON object of string entries: none, one, or one followed
\* by another.
Entry(k, v) == [key |-> k, value |-> v]

HealthKeys == {"status", "state"}
HealthValues == {"ok", "loading model", "error", "starting"}

HealthResponses ==
    {[kind |-> k, entries |-> <<>>] : k \in {"curl_error", "oversize", "not_object", "object"}}
    \cup {[kind |-> "object", entries |-> <<Entry(k, v)>>] :
            k \in HealthKeys, v \in HealthValues}
    \cup {[kind |-> "object", entries |-> <<Entry(k, v), Entry("slots_idle", "1")>>] :
            k \in HealthKeys, v \in HealthValues}

NoBody == [kind |-> "none", entries |-> <<>>]

\* A visitor that knows the loading text as "loading".
visit_map_loading(entries) ==
    IF entries = <<>> THEN "Unknown"
    ELSE CASE entries[1].value = "ok"      -> "Ok"
           [] entries[1].value = "loading" -> "Loading"
           [] entries[1].value = "error"   -> "Error"
           [] OTHER                        -> "Unknown"

\* StatusVisitor::visit_map: the value of the first entry decides, whatever
\* its key; no entry gives Unknown.
visit_map(entries) ==
    IF entries = <<>> THEN "Unknown"
    ELSE CASE entries[1].value = "ok"            -> "Ok"
           [] entries[1].value = "loading model" -> "Loading"
           [] entries[1].value = "error"         -> "Error"
           [] OTHER                              -> "Unknown"

\* LlamaCpp::health_check: Err when curl fails and when serde_json fails: on
\* the empty slice an oversize body leaves, on a body that is not an object,
\* and on the entries visit_map left unread; else Ok(Status).
health_check(resp) ==
    IF resp.kind # "object" \/ Len(resp.entries) > 1 THEN "Err"
    ELSE visit_map(resp.entries)

\* ------------------------------------------------------------------- embed
\* What the /embedding endpoint can answer: no answer (reqwest fails), a body
\* that does not parse as EmbedResponse, or a vector of doubles.
EmbedResponses == {"reqwest_error", "unparsable", "[]", "[1.0]"}

\* serde_json::from_str::<EmbedResponse> followed by the f64 -> f32 map.
embedding_32(resp) == IF resp = "[1.0]" THEN <<1>> ELSE <<>>

\* An embed that swallows the transport error like the parse error.
embed_swallow(text, resp) == Document(text.id, embedding_32(resp))

\* LlamaCpp::embed: `?` on the transport error, vec![] on a parse error.
embed(text, resp) ==
    IF resp = "reqwest_error" THEN ErrResult
    ELSE Document(text.id, embedding_32(resp))

\* ------------------------------------------------------------------ Qlient
UpsertResponses == {"transport_error", "no_result", "status_1", "status_other"}

document_to_pointstruct(uuid, d) ==
    [id |-> uuid, payload |-> d.id, vector |-> d.embeddings]

\* A push that stops buffering one point short of the capacity.
HasRoomEarly(buf, sz) == Len(buf) + 1 < sz

\* A push that also buffers into a buffer that is already full.
HasRoomOffByOne(buf, sz) == Len(buf) <= sz

\* Qlient::push line 66: the incoming point is buffered while there is room.
HasRoom(buf, sz) == Len(buf) < sz

\* Qlient::push: the new buffer, the batch handed to upsert_points (if the
\* call was made) and the value returned.  The status match of lines 84-89
\* is a discarded expression: only a transport error makes push fail.
push(buf, sz, uuid, document, resp) ==
    IF HasRoom(buf, sz)
    THEN [buffer |-> <<document_to_pointstruct(uuid, document)>> \o buf,
          called |-> FALSE, points |-> <<>>, ret |-> "Ok"]
    ELSE IF Len(buf) >= sz
    THEN [buffer |-> <<>>, called |-> TRUE, points |-> buf,
          ret |-> IF resp = "transport_error" THEN "Err" ELSE "Ok"]
    ELSE [buffer |-> buf, called |-> FALSE, points |-> <<>>, ret |-> "Ok"]

\* ==================================================================== Init
Init ==
    /\ pcMain = "read_documents"
    /\ pcCons = "unspawned"
    /\ lines \in SeqsUpTo(LineKinds, MaxLines)
    /\ documents = <<>>
    /\ total_expected = 0
    /\ dur = InitialBackoff
    /\ sleeps = <<>>
    /\ probes = 0
    /\ lastStatus = "none"
    /\ healthBody = NoBody
    /\ awaitResult = "none"
    /\ inflight = NoDocument
    /\ embedCalls = <<>>
    /\ chan = <<>>
    /\ txOpen = TRUE
    /\ sent = <<>>
    /\ received = <<>>
    /\ size \in 1..MaxSize
    /\ buffer = <<>>
    /\ pushed = <<>>
    /\ upserts = <<>>
    /\ storeCalls = <<>>
    /\ hasCollection = "none"
    /\ processed = 0
    /\ errors = 0
    /\ embeddings = 0
    /\ stored = 0

\* ============================================================ the main task
\* main.rs:34-36: File::open may fail, and `?` then ends main.
ReadDocuments ==
    /\ pcMain = "read_documents"
    /\ \E opened \in BOOLEAN :
          IF opened
          THEN /\ documents' = read_documents(lines, 1, <<>>)
               /\ lines' = <<>>
               /\ pcMain' = "health_check"
          ELSE /\ documents' = documents
               /\ lines' = lines
               /\ pcMain' = "done"
    /\ UNCHANGED <<total_expected, dur, sleeps, probes, lastStatus, healthBody,
                   awaitResult, inflight, embedCalls, txOpen, sent, chan>>
    /\ UNCHANGED consVars

\* health_check up to curl.perform (llama_cpp.rs:147-171): the answer is in.
HealthPerform ==
    /\ pcMain = "health_check"
    /\ \E resp \in HealthResponses :
          /\ (health_check(resp) \notin {"Ok", "Err"}) => Len(sleeps) < MaxProbes
          /\ healthBody' = resp
    /\ pcMain' = "health_decode"
    /\ UNCHANGED <<lines, documents, total_expected, dur, sleeps, probes,
                   lastStatus, awaitResult, inflight, embedCalls, txOpen, sent,
                   chan>>
    /\ UNCHANGED consVars

\* await_llama, the loop condition: the health_check result.  Its Err leaves
\* await_llama by `?`; main.rs:40 drops the returned Result either way.
HealthCheck ==
    /\ pcMain = "health_decode"
    /\ LET st == health_check(healthBody) IN
          /\ probes' = probes + 1
          /\ lastStatus' = st
          /\ IF st = "Err" THEN awaitResult' = "Err" /\ pcMain' = "spawn"
             ELSE IF st = "Ok" THEN awaitResult' = "Ok" /\ pcMain' = "spawn"
             ELSE awaitResult' = awaitResult /\ pcMain' = "sleep"
    /\ healthBody' = NoBody
    /\ UNCHANGED <<lines, documents, total_expected, dur, sleeps, inflight,
                   embedCalls, txOpen, sent, chan>>
    /\ UNCHANGED consVars

\* A backoff that doubles instead of growing by the increment.
next_dur_doubling(d) == d + d

\* main.rs:68: dur += 500 ms.
next_dur(d) == d + Increment

\* await_llama, the loop body: sleep(dur), then dur += 500 ms.
Sleep ==
    /\ pcMain = "sleep"
    /\ sleeps' = Append(sleeps, dur)
    /\ dur' = next_dur(dur)
    /\ pcMain' = "health_check"
    /\ UNCHANGED <<lines, documents, total_expected, probes, lastStatus, healthBody,
                   awaitResult, inflight, embedCalls, txOpen, sent, chan>>
    /\ UNCHANGED consVars

\* main.rs:42: vector_upsert_loop spawns the consumer thread.
SpawnConsumer ==
    /\ pcMain = "spawn"
    /\ total_expected' = Len(documents)
    /\ pcCons' = "has_collection"
    /\ pcMain' = "embed"
    /\ UNCHANGED <<lines, documents, dur, sleeps, probes, lastStatus, healthBody,
                   awaitResult, inflight, embedCalls, txOpen, sent, chan>>
    /\ UNCHANGED <<received, size, buffer, pushed, upserts, storeCalls,
                   hasCollection, processed, errors, embeddings, stored>>

\* main.rs:44-45: the next document is taken and its embed call issued.
EmbedIssue ==
    /\ pcMain = "embed"
    /\ documents # <<>>
    /\ inflight' = Head(documents)
    /\ documents' = Tail(documents)
    /\ embedCalls' = Append(embedCalls, [doc |-> Head(documents).id, response |-> "pending"])
    /\ pcMain' = "embedding"
    /\ UNCHANGED <<lines, total_expected, dur, sleeps, probes, lastStatus, healthBody,
                   awaitResult, txOpen, sent, chan>>
    /\ UNCHANGED consVars

\* A main that gives up at the first embed error.
AfterOutcomeAbort(embedded) == IF embedded.tag = "Err" THEN "done" ELSE "embed"

\* main.rs:46: what follows an embed outcome, whatever it is: the next
\* iteration of the for loop.
AfterOutcome(embedded) == "embed"

\* A channel that hands the newest outcome out first.
send_front(ch, v) == <<v>> \o ch

\* main.rs:46: tx.send on the unbounded mpsc channel queues at the back.
send(ch, v) == Append(ch, v)

\* main.rs:45-46: the embed call returns and its outcome is sent; the send
\* fails, unnoticed, once the consumer thread has dropped the receiver.
EmbedReturn ==
    /\ pcMain = "embedding"
    /\ \E resp \in EmbedResponses :
         LET embedded == embed(inflight, resp) IN
          /\ embedCalls' = [embedCalls EXCEPT ![Len(embedCalls)].response = resp]
          /\ sent' = Append(sent, embedded)
          /\ chan' = IF pcCons \in {"panicked", "done"} THEN chan
                     ELSE send(chan, embedded)
          /\ pcMain' = AfterOutcome(embedded)
    /\ inflight' = NoDocument
    /\ UNCHANGED <<lines, documents, total_expected, dur, sleeps, probes,
                   lastStatus, healthBody, awaitResult, txOpen>>
    /\ UNCHANGED consVars

\* main.rs:49: drop(tx) closes the channel.
DropTx ==
    /\ pcMain = "embed"
    /\ documents = <<>>
    /\ txOpen' = FALSE
    /\ pcMain' = "join"
    /\ UNCHANGED <<lines, documents, total_expected, dur, sleeps, probes,
                   lastStatus, healthBody, awaitResult, inflight, embedCalls, sent, chan>>
    /\ UNCHANGED consVars

\* main.rs:51-53: join returns once the consumer thread has ended.
Join ==
    /\ pcMain = "join"
    /\ pcCons \in {"done", "panicked"}
    /\ pcMain' = "done"
    /\ UNCHANGED <<lines, documents, total_expected, dur, sleeps, probes,
                   lastStatus, healthBody, awaitResult, inflight, embedCalls, txOpen, sent,
                   chan>>
    /\ UNCHANGED consVars

\* ====================================================== the consumer thread
\* A bootstrap that forgets the negation: it creates what already exists.
after_has_collection_inverted(r) ==
    CASE r = "true"  -> "create_collection"
      [] r = "false" -> "recv"
      [] OTHER       -> "panicked"

\* main.rs:80: `if !has_collection(..).expect(..)`: create when absent, go on
\* to the loop when present, panic on Err.
after_has_collection(r) ==
    CASE r = "true"  -> "recv"
      [] r = "false" -> "create_collection"
      [] OTHER       -> "panicked"

\* main.rs:80: has_collection; its Err panics the thread (expect), which
\* drops the receiver and whatever the channel holds.
HasCollection ==
    /\ pcCons = "has_collection"
    /\ storeCalls' = Append(storeCalls, "has_collection")
    /\ \E r \in {"true", "false", "err"} :
          /\ hasCollection' = r
          /\ pcCons' = after_has_collection(r)
          /\ chan' = IF r = "err" THEN <<>> ELSE chan
    /\ UNCHANGED <<received, size, buffer, pushed, upserts, processed, errors,
                   embeddings, stored>>
    /\ UNCHANGED mainVars

\* main.rs:81-98: create_collection; its result is discarded.
CreateCollection ==
    /\ pcCons = "create_collection"
    /\ storeCalls' = Append(storeCalls, "create_collection")
    /\ pcCons' = "recv"
    /\ UNCHANGED <<received, size, buffer, pushed, upserts, hasCollection,
                   processed, errors, embeddings, stored, chan>>
    /\ UNCHANGED mainVars

\* A consumer that counts a pushed document as stored whatever push returned.
counts_stored_always(result, ret) ==
    IF result.tag = "Ok" /\ result.embeddings # <<>>
    THEN [processed |-> 0, embeddings |-> 1, stored |-> 1,
          errors |-> IF ret = "Ok" THEN 0 ELSE 1]
    ELSE IF result.tag = "Ok"
    THEN [processed |-> 1, embeddings |-> 0, stored |-> 0, errors |-> 0]
    ELSE [processed |-> 0, embeddings |-> 0, stored |-> 0, errors |-> 1]

\* main.rs:116-134: what the match adds to each progress bar for one outcome,
\* `ret` being what push returned (read only in the first arm).
counts(result, ret) ==
    IF result.tag = "Ok" /\ result.embeddings # <<>>
    THEN [processed |-> 0, embeddings |-> 1,
          stored |-> IF ret = "Ok" THEN 1 ELSE 0,
          errors |-> IF ret = "Ok" THEN 0 ELSE 1]
    ELSE IF result.tag = "Ok"
    THEN [processed |-> 1, embeddings |-> 0, stored |-> 0, errors |-> 0]
    ELSE [processed |-> 0, embeddings |-> 0, stored |-> 0, errors |-> 1]

\* main.rs:115-135: one iteration of the receive loop.  The store's answer is
\* drawn only when push makes the upsert call.
Recv ==
    /\ pcCons = "recv"
    /\ chan # <<>>
    /\ LET result == Head(chan) IN
        /\ chan' = Tail(chan)
        /\ received' = Append(received, result)
        /\ IF result.tag = "Ok" /\ result.embeddings # <<>>
           THEN \E resp \in UpsertResponses :
                  LET p == push(buffer, size, Len(pushed) + 1, result, resp)
                      c == counts(result, p.ret) IN
                   /\ pushed' = Append(pushed, result.id)
                   /\ buffer' = p.buffer
                   /\ p.called => /\ upserts' = Append(upserts, [points |-> p.points, response |-> resp])
                                  /\ storeCalls' = Append(storeCalls, "upsert_points")
                   /\ ~p.called => /\ resp = "no_result"
                                   /\ UNCHANGED <<upserts, storeCalls>>
                   /\ processed' = processed + c.processed
                   /\ embeddings' = embeddings + c.embeddings
                   /\ stored' = stored + c.stored
                   /\ errors' = errors + c.errors
           ELSE LET c == counts(result, "none") IN
                /\ processed' = processed + c.processed
                /\ embeddings' = embeddings + c.embeddings
                /\ stored' = stored + c.stored
                /\ errors' = errors + c.errors
                /\ UNCHANGED <<buffer, pushed, upserts, storeCalls>>
    /\ pcCons' = "recv"
    /\ UNCHANGED <<size, hasCollection>>
    /\ UNCHANGED mainVars

\* main.rs:115, 137: recv returns None once the channel is closed and
\* drained; the loop ends and the thread returns.
ConsumerExit ==
    /\ pcCons = "recv"
    /\ chan = <<>>
    /\ ~txOpen
    /\ pcCons' = "done"
    /\ UNCHANGED <<received, size, buffer, pushed, upserts, storeCalls, hasCollection,
                   processed, errors, embeddings, stored, chan>>
    /\ UNCHANGED mainVars

MainStep ==
    \/ ReadDocuments
    \/ HealthPerform
    \/ HealthCheck
    \/ Sleep
    \/ SpawnConsumer
    \/ EmbedIssue
    \/ EmbedReturn
    \/ DropTx
    \/ Join

ConsumerStep ==
    \/ HasCollection
    \/ CreateCollection
    \/ Recv
    \/ ConsumerExit

Next == MainStep \/ ConsumerStep

Spec == Init /\ [][Next]_vars

\* Both threads are scheduled, and every external call returns.
FairSpec == Spec /\ WF_vars(MainStep) /\ WF_vars(ConsumerStep)

\* ================================================================== claims
\* Every (upsert, position) at which the document `id` was handed to the store.
Occurrences(id) ==
    {pr \in UNION {{u} \X (1..Len(upserts[u].points)) : u \in 1..Len(upserts)} :
        upserts[pr[1]].points[pr[2]].payload = id}

Payloads(points) == {points[k].payload : k \in 1..Len(points)}

IsEmbedded(r) == r.tag = "Ok" /\ r.embeddings # <<>>
IsNotEmbedded(r) == r.tag = "Ok" /\ r.embeddings = <<>>
IsErr(r) == r.tag = "Err"
TransportFailed(u) == u.response = "transport_error"
Acknowledged(u) == u.response = "status_1"

\* The number of points in the batch upserts the store acknowledged.
RECURSIVE PointsStored(_)
PointsStored(us) ==
    IF us = <<>> THEN 0
    ELSE (IF Acknowledged(Head(us)) THEN Len(Head(us).points) ELSE 0)
         + PointsStored(Tail(us))

\* The received outcomes whose inference call answered with one of `kinds`.
ReceivedWith(kinds) ==
    {i \in 1..Len(received) : embedCalls[i].response \in kinds}

\* C1: after C + 1 pushes on an initially empty buffer exactly one batch upsert
\* has been issued, it holds exactly the first C points, and the (C+1)-th point
\* is held in the buffer.
C1_TriggeringPointKept ==
    (Len(pushed) = size + 1) =>
        /\ Len(upserts) = 1
        /\ Payloads(upserts[1].points) = {pushed[i] : i \in 1..size}
        /\ Len(buffer) = 1
        /\ buffer[1].payload = pushed[size + 1]

\* C2: when the consumer leaves its loop (channel closed and drained) with n
\* points buffered, 0 < n < C, that step issues one more batch upsert covering
\* those n points and empties the buffer.
C2_TailFlush ==
    [][(pcCons = "recv" /\ pcCons' = "done" /\ 0 < Len(buffer) /\ Len(buffer) < size)
        => /\ Len(upserts') = Len(upserts) + 1
           /\ Payloads(upserts'[Len(upserts')].points) = Payloads(buffer)
           /\ buffer' = <<>>]_vars

\* C3: once the consumer has terminated, every document whose embedding
\* succeeded was handed to the store in exactly one batch upsert.
C3_EmbeddedUpsertedOnce ==
    (pcCons = "done") =>
        \A i \in 1..Len(sent) :
            IsEmbedded(sent[i]) => Cardinality(Occurrences(sent[i].id)) = 1

\* C4: the batch buffer never holds more than C points.
C4_BufferBounded == Len(buffer) <= size

\* C4 witness: the buffer is full again after a flush has emptied it.
C4_Witness == Len(buffer) = size /\ Len(upserts) >= 1

\* C5: once a health probe has failed with a transport-level error, no
\* embedding request is issued, no outcome is sent and the consumer worker is
\* not started.
C5_ProbeFailureAborts ==
    (awaitResult = "Err") =>
        /\ embedCalls = <<>>
        /\ sent = <<>>
        /\ pcCons = "unspawned"

\* C6: after k non-Ready probe results followed by Ready the readiness wait
\* has slept exactly k times, the i-th sleep lasting 7000 + (i-1) * 500 ms, and
\* it returns success only when the last probe returned Ready; it sleeps only
\* after a non-Ready result.
C6_ReadinessBackoff ==
    /\ \A i \in 1..Len(sleeps) : sleeps[i] = 7000 + (i - 1) * 500
    /\ \A i \in 2..Len(sleeps) : sleeps[i - 1] <= sleeps[i]
    /\ (pcMain = "sleep") => lastStatus \in {"Loading", "Error", "Unknown"}
    /\ (awaitResult = "Ok") => (lastStatus = "Ok" /\ Len(sleeps) = probes - 1)

\* C6 witness: the wait has returned success after two sleeps.
C6_Witness == awaitResult = "Ok" /\ Len(sleeps) = 2 /\ probes = 3

\* C7: every embedding request, every channel send and every store call
\* happens after the readiness wait has returned successfully.
C7_StartBarrier ==
    (embedCalls # <<>> \/ sent # <<>> \/ storeCalls # <<>>) => awaitResult = "Ok"

C9_StoredCountsUpserted == stored = PointsStored(upserts)

\* C10: failures do not stop the run.  Once the embedding loop has started,
\* main eventually terminates having embedded and sent every document, the
\* consumer having ended before it.  The consumer ends early only by its
\* startup panic (collection check), before it has received any outcome or
\* made any upsert; otherwise it has received every outcome, in order, and
\* drained the channel.
C10_DrainsToCompletion ==
    (pcMain = "embed") ~>
        /\ pcMain = "done"
        /\ pcCons \in {"done", "panicked"}
        /\ Len(embedCalls) = total_expected
        /\ Len(sent) = total_expected
        /\ (pcCons = "panicked") =>
              (received = <<>> /\ upserts = <<>> /\ storeCalls = <<"has_collection">>)
        /\ (pcCons = "done") => (received = sent /\ chan = <<>>)

\* C10 witness: a run that ended normally after an embedding error and, later,
\* a failed batch upsert.
C10_Witness ==
    /\ pcMain = "done"
    /\ pcCons = "done"
    /\ Len(received) = 3
    /\ received[1].tag = "Err"
    /\ \E u \in 1..Len(upserts) : TransportFailed(upserts[u])

\* C11: the consumer receives the outcomes in the order in which they were
\* sent, none lost and none duplicated: while the receiver lives, what was
\* sent is what was received followed by what the channel still holds, and a
\* consumer that left its loop has received everything that was sent.
C11_FifoDelivery ==
    /\ (pcCons # "panicked") => sent = received \o chan
    /\ (pcCons = "done") => (received = sent /\ chan = <<>> /\ ~txOpen)
    /\ Len(received) <= Len(sent)
    /\ \A i \in 1..Len(received) : received[i] = sent[i]

\* C11 witness: the producer is ahead of the consumer: one outcome received,
\* two more queued, all three of different documents.
C11_Witness ==
    /\ Len(received) = 1
    /\ Len(chan) = 2
    /\ IsEmbedded(received[1]) /\ IsEmbedded(chan[1]) /\ IsEmbedded(chan[2])

\* C12: at most one embedding request is in flight at any moment, and the
\* requests are issued in document order: the call for input record i comes
\* before the call for input record j whenever i < j (a document's id is the
\* number of its line in the input).
C12_OneAtATimeInOrder ==
    /\ Cardinality({i \in 1..Len(embedCalls) : embedCalls[i].response = "pending"}) <= 1
    /\ \A a, b \in 1..Len(embedCalls) :
          a < b => embedCalls[a].doc < embedCalls[b].doc

\* A batch upsert the store did not carry out: no answer, or an answer whose
\* status is not the one push accepts.
StoreFailed(u) == u.response \in {"transport_error", "status_other"}

\* C13: every failed batch upsert (transport error or non-success status) is
\* counted in the failed counter; it is not retried, and none of its points is
\* put back into the buffer.
C13_FailedUpsertCounted ==
    /\ errors >= Cardinality(ReceivedWith({"reqwest_error"})) + Count(upserts, StoreFailed)
    /\ \A u, v \in 1..Len(upserts) :
          u # v => Payloads(upserts[u].points) \cap Payloads(upserts[v].points) = {}
    /\ \A u \in 1..Len(upserts) :
          Payloads(upserts[u].points) \cap Payloads(buffer) = {}

Positions(calls, name) == {i \in 1..Len(calls) : calls[i] = name}

\* C14: the collection check is the consumer's first store call and is made
\* once, before the first push; a create-collection call is made if and only
\* if the check found the collection absent, at most once, and before every
\* batch upsert.
C14_CollectionBootstrap ==
    /\ Positions(storeCalls, "has_collection") \subseteq {1}
    /\ (storeCalls # <<>>) => storeCalls[1] = "has_collection"
    /\ (pushed # <<>> \/ received # <<>>) =>
          (storeCalls # <<>> /\ hasCollection \in {"true", "false"})
    /\ (pcCons \in {"recv", "done"}) =>
          (Positions(storeCalls, "create_collection") # {} <=> hasCollection = "false")
    /\ (hasCollection # "false") => Positions(storeCalls, "create_collection") = {}
    /\ Positions(storeCalls, "create_collection") \subseteq {2}
    /\ \A i \in Positions(storeCalls, "create_collection"),
          j \in Positions(storeCalls, "upsert_points") : i < j

\* C14 witness: the collection was absent, was created, and a batch upsert
\* followed.
C14_Witness ==
    /\ hasCollection = "false"
    /\ Len(storeCalls) >= 3
    /\ storeCalls[2] = "create_collection"
    /\ storeCalls[3] = "upsert_points"

\* C15: if the collection-existence check fails, no document is embedded and
\* no outcome is sent on the channel.
C15_StoreUnreachableAborts ==
    (hasCollection = "err") => (embedCalls = <<>> /\ sent = <<>>)

WellFormedLines(ls) == {i \in 1..Len(ls) : ls[i] = "wellformed"}

\* C16: loading produces exactly one Document per well-formed line and none
\* for any other line, wherever the other lines are placed: the loaded
\* documents are those of the well-formed lines, one each.
C16_OnePerWellFormedLine ==
    [][(pcMain = "read_documents" /\ pcMain' = "health_check")
        => /\ {documents'[k].id : k \in 1..Len(documents')} = WellFormedLines(lines)
           /\ Len(documents') = Cardinality(WellFormedLines(lines))]_vars

\* C17: a push made while the buffer holds fewer than C points adds the point
\* to the buffer, keeps the points already there and makes no store call; a
\* push makes a batch upsert only when the buffer holds exactly C points, and
\* every batch upsert contains exactly C points.
C17_PushBelowCapacity ==
    [][(pushed' # pushed) =>
          IF Len(buffer) < size
          THEN /\ Len(buffer') = Len(buffer) + 1
               /\ Payloads(buffer') = Payloads(buffer) \cup {pushed'[Len(pushed')]}
               /\ upserts' = upserts
               /\ storeCalls' = storeCalls
          ELSE /\ Len(buffer) = size
               /\ Len(upserts') = Len(upserts) + 1
               /\ Len(upserts'[Len(upserts')].points) = size
               /\ \A u \in 1..Len(upserts) : Len(upserts[u].points) = size]_vars

\* C17 witness: with capacity 2, two pushes were buffered without a store
\* call and the third made the batch upsert.
C17_Witness ==
    /\ size = 2
    /\ Len(pushed) = 3
    /\ Len(upserts) = 1
    /\ Len(upserts[1].points) = 2

\* The mapping the claim gives for a status text.
ClaimedStatus(v) ==
    CASE v = "ok"            -> "Ok"
      [] v = "loading model" -> "Loading"
      [] v = "error"         -> "Error"
      [] OTHER               -> "Unknown"

HasStatusField(b) == \E i \in 1..Len(b.entries) : b.entries[i].key = "status"

StatusField(b) ==
    b.entries[CHOOSE i \in 1..Len(b.entries) : b.entries[i].key = "status"].value

Decoding == pcMain = "health_decode" /\ pcMain' # "health_decode"

\* C18 (as claimed): a health response is decoded by the closed mapping of its
\* status field, and the readiness wait ends successfully only for a response
\* whose status field is "ok".
C18_StatusFieldMapping ==
    [][Decoding =>
        /\ HasStatusField(healthBody) => lastStatus' = ClaimedStatus(StatusField(healthBody))
        /\ (awaitResult' = "Ok") =>
              (HasStatusField(healthBody) /\ StatusField(healthBody) = "ok")]_vars

\* C18 (amended): a response that is a JSON object with a single entry is
\* decoded by the closed mapping of that entry's value, whatever its key; an
\* empty object gives Unknown; a transport failure, an oversize body, a body
\* that is not an object and an object with further entries make the probe
\* fail.  The readiness wait ends successfully exactly for a single-entry
\* object whose value is "ok".
C18_FirstEntryMapping ==
    [][Decoding =>
        /\ lastStatus' =
              IF healthBody.kind = "object" /\ Len(healthBody.entries) = 1
                  THEN ClaimedStatus(healthBody.entries[1].value)
              ELSE IF healthBody.kind = "object" /\ healthBody.entries = <<>>
                  THEN "Unknown"
              ELSE "Err"
        /\ (awaitResult' = "Ok") <=>
              /\ healthBody.kind = "object"
              /\ Len(healthBody.entries) = 1
              /\ healthBody.entries[1].value = "ok"]_vars

\* C18 witness: the second probe answered "loading model" and was decoded as
\* Loading.
C18_Witness == pcMain = "sleep" /\ lastStatus = "Loading" /\ probes = 2

\* What one step adds to each counter.
Delta == [processed  |-> processed' - processed,
          embeddings |-> embeddings' - embeddings,
          stored     |-> stored' - stored,
          errors     |-> errors' - errors]

\* C19: every received outcome increments exactly one of processed, embedded
\* and failed, or embedded together with exactly one of stored and failed; no
\* other step changes a counter, so counters never decrease; no counter
\* exceeds the number of outcomes received; and once the consumer has drained
\* the channel, embedded = stored + store failures and processed + embedded +
\* embedding failures = outcomes received.
C19_CounterPartition ==
    /\ [][IF received' # received
          THEN \/ Delta = [processed |-> 1, embeddings |-> 0, stored |-> 0, errors |-> 0]
               \/ Delta = [processed |-> 0, embeddings |-> 0, stored |-> 0, errors |-> 1]
               \/ Delta = [processed |-> 0, embeddings |-> 1, stored |-> 1, errors |-> 0]
               \/ Delta = [processed |-> 0, embeddings |-> 1, stored |-> 0, errors |-> 1]
          ELSE Delta = [processed |-> 0, embeddings |-> 0, stored |-> 0, errors |-> 0]]_vars
    /\ [](/\ processed <= Len(received)
          /\ embeddings <= Len(received)
          /\ stored <= Len(received)
          /\ errors <= Len(received)
          /\ (pcCons = "done") =>
                /\ embeddings = stored + Count(upserts, TransportFailed)
                /\ processed + embeddings + Count(received, IsErr) = Len(received))

\* C19 witness: a drained run in which every counter has moved.
C19_Witness ==
    /\ pcCons = "done"
    /\ processed >= 1
    /\ embeddings >= 1
    /\ Count(received, IsErr) >= 1
    /\ Len(received) = 3

====
